---------------------------- MODULE Spec2Model ----------------------------
(***************************************************************************)
(* GuruShots auto voter: voter.js (scheduler) and src/fetch.js (one cycle  *)
(* of fetchChallengesAndVote, the boost step, the vote-selection loop of   *)
(* submitVotes and the token check of makePostRequest).                    *)
(*                                                                         *)
(* Every run of fetchChallengesAndVote is a "cycle".  A cycle is a record  *)
(* holding the locals of fetchChallengesAndVote / submitVotes and its      *)
(* position (pc); the positions are the awaits of the code, plus the loop  *)
(* heads.  The server's answers are inputs, drawn when the answer arrives. *)
(*                                                                         *)
(* The members of a listed challenge are server data too, and the code     *)
(* reads each of them once: member.boost at the boost gate,                *)
(* member.ranking.entries in applyBoost, member.ranking.exposure and       *)
(* start_time at the voting gate.  Each is drawn where the code reads it;  *)
(* cy.challenge holds the members of the current challenge read so far     *)
(* (the entries until the voting gate only).                               *)
(***************************************************************************)
EXTENDS Integers, Sequences, FiniteSets, TLC

VARIABLES token, login, proc, voteCounter, cycles

vars == <<token, login, proc, voteCounter, cycles>>

(***************************************************************************)
(* Bounds of the model.                                                    *)
(***************************************************************************)
MaxTicks == 1
MaxChallenges == 2
MaxEntries == 2
MaxPool == 3
SchedMaxChallenges == 1

(***************************************************************************)
(* Program constants.                                                      *)
(***************************************************************************)
Target == 100
BoostTimeout == 10 * 60

Cycles == 0..MaxTicks

SeqsUpTo(S, k) == UNION {[1..j -> S] : j \in 0..k}

(***************************************************************************)
(* Data read from the server.                                              *)
(***************************************************************************)
Ids == {"a", "b", "c&d"}
Ratios == {30, 40, 50}
StartExposures == {0, 60, 100}
NowValues == {1000}

\* The values of Math.random(), doubles of [0, 1): Ratio(r) is r / 3001 (on
\* these the double arithmetic of getRandomDelay(2000, 5000) is exact after
\* the floor), BelowOne(h) is 1 - h * 2^-53, a double next to 1 (v8 returns
\* the multiples of 2^-52, the even h).
RandomResolution == 3001
Ratio(r) == [kind |-> "ratio", r |-> r]
BelowOne(h) == [kind |-> "belowOne", r |-> h]
MathRandom == {Ratio(0), Ratio(1500), Ratio(3000), BelowOne(2)}

\* The largest power of two that is at most x (x >= 1): doubles of
\* [p, 2p) are p * 2^-52 apart.
RECURSIVE Pow2Below(_)
Pow2Below(x) == IF x < 2 THEN 1 ELSE 2 * Pow2Below(x \div 2)

\* n / d rounded to the nearest integer, a tie to the even one: the rounding
\* of a double operation.
RoundHalfEven(n, d) ==
    LET q == n \div d
        rem == n % d
    IN  IF 2 * rem < d THEN q
        ELSE IF 2 * rem > d THEN q + 1
        ELSE IF q % 2 = 0 THEN q ELSE q + 1

\* encodeURIComponent on the identifiers of the model: "&" is escaped.
encodeURIComponent(id) ==
    CASE id = "a" -> "a"
      [] id = "b" -> "b"
      [] id = "c&d" -> "c%26d"

NoBoost == [present |-> FALSE, state |-> "NONE", timeout |-> 0]
NoExposure == [present |-> FALSE, exposure_factor |-> 0]
NoEntries == [present |-> FALSE, list |-> <<>>]
NoChallenge == [boost |-> NoBoost, entries |-> NoEntries,
                exposure |-> NoExposure, start_time |-> 0]
NoAnswerChallenge == [present |-> FALSE, id |-> 0]
NoVoteImages == [kind |-> "null", images |-> <<>>, exposure_factor |-> 0,
                 challenge |-> NoAnswerChallenge]
NoRequest == [op |-> "none", c_id |-> 0, image_ids |-> <<>>,
              viewed_image_ids |-> <<>>, image_id |-> 0]

\* The challenge member of a response of get_vote_images: one with an id of
\* ids (the id of a listed challenge is its place in the list; the answer
\* need not carry the id of the challenge it was asked for), or none.
AnswerChallenges(ids, missing) ==
    {[present |-> TRUE, id |-> i] : i \in ids}
    \cup (IF missing THEN {NoAnswerChallenge} ELSE {})

\* A response of get_vote_images: "null" is a failed request, "novoting" a
\* response with images and no voting member, "ok" carries images (possibly
\* none) and voting.exposure.exposure_factor; challenges are the challenge
\* members it can carry.
VoteImagesOf(pools, exposures, challenges) ==
    {NoVoteImages}
    \cup {[kind |-> k, images |-> p, exposure_factor |-> e, challenge |-> ch] :
             k \in {"ok"}, p \in pools, e \in exposures, ch \in challenges}
    \cup {[kind |-> "novoting", images |-> p, exposure_factor |-> 0,
           challenge |-> ch] :
             p \in {q \in pools : Len(q) > 0}, ch \in challenges}

Image(id, ratio) == [id |-> id, ratio |-> ratio]

(***************************************************************************)
(* The worlds the server's answers are drawn from: CycleWorld for one      *)
(* cycle studied alone, SchedWorld for the scheduler with cycles that      *)
(* overlap (there get_vote_images always answers with a pool).             *)
(***************************************************************************)
CycleWorld ==
    [maxCh |-> MaxChallenges,
     nows |-> NowValues,
     states |-> {"AVAILABLE", "USED"},
     deadlines |-> {0, 1, BoostTimeout, BoostTimeout + 1},
     noDeadline |-> TRUE,
     malformed |-> TRUE,
     noEntries |-> TRUE,
     responses |-> {"ok", "failed"},
     randoms |-> MathRandom,
     entries |-> SeqsUpTo(BOOLEAN, MaxEntries),
     exposures |-> {50, Target},
     starts |-> {-1, 0, 1},
     voteImages |-> VoteImagesOf({<<>>, <<Image("a", 50), Image("c&d", 50)>>},
                                 {60, Target},
                                 AnswerChallenges(1..2, TRUE))]

SchedWorld ==
    [maxCh |-> SchedMaxChallenges,
     nows |-> NowValues,
     states |-> {"AVAILABLE"},
     deadlines |-> {1},
     noDeadline |-> FALSE,
     malformed |-> TRUE,
     noEntries |-> FALSE,
     responses |-> {"ok"},
     randoms |-> {Ratio(0)},
     entries |-> {<<FALSE>>},
     exposures |-> {50},
     starts |-> {-1},
     voteImages |-> {r \in VoteImagesOf({<<Image("a", 50)>>}, {60},
                                         AnswerChallenges({1}, FALSE)) :
                        r.kind = "ok"}]

BoostsOf(W, nw) ==
    {[present |-> TRUE, state |-> s, timeout |-> nw + d] :
        s \in W.states, d \in W.deadlines}
    \cup (IF W.noDeadline
          THEN {[present |-> TRUE, state |-> s, timeout |-> 0] : s \in W.states}
          ELSE {})
    \cup (IF W.malformed THEN {NoBoost} ELSE {})

\* member.ranking.entries: the turbo flags of the entries in list order, an
\* entry's id being its position; or no list at all.
EntriesOf(W) ==
    {[present |-> TRUE, list |-> e] : e \in W.entries}
    \cup (IF W.noEntries THEN {NoEntries} ELSE {})

ExposuresOf(W) ==
    {[present |-> TRUE, exposure_factor |-> e] : e \in W.exposures}
    \cup (IF W.malformed THEN {NoExposure} ELSE {})

StartTimesOf(W, nw) == {nw + s : s \in W.starts}

\* The answers of get_my_active_challenges: a failed request, a response
\* without a challenges list, or a list of len challenges.
ChallengeResponses(W) ==
    {[kind |-> "null", len |-> 0], [kind |-> "malformed", len |-> 0]}
    \cup {[kind |-> "ok", len |-> k] : k \in 0..W.maxCh}

(***************************************************************************)
(* A cycle.                                                                *)
(***************************************************************************)
IdleCycle ==
    [pc |-> "idle", answer |-> "none", n |-> 0, now |-> 0, idx |-> 0,
     challenge |-> NoChallenge,
     voteImages |-> NoVoteImages, exposure_factor |-> 0,
     uniqueImageIds |-> {}, votedImages |-> <<>>, viewedImages |-> <<>>,
     picked |-> <<>>, warned |-> FALSE, boostResult |-> "none",
     submitResult |-> "none", delay |-> 0, slept |-> {},
     reqs |-> <<>>, request |-> NoRequest,
     boosted |-> {}, gated |-> {}, fetched |-> {}, caught |-> {}]

Init ==
    /\ token \in BOOLEAN
    /\ login = "idle"
    /\ proc = "running"
    /\ voteCounter = 0
    /\ cycles = [c \in Cycles |-> IdleCycle]


\* The process is alive and no promise of a cycle is rejected: node raises an
\* unhandled rejection when the microtask queue is drained, before any timer
\* or answer is served.
Running ==
    /\ proc = "running"
    /\ \A c \in Cycles : cycles[c].pc # "rejected"

(***************************************************************************)
(* makePostRequest: the token check, then the request.                     *)
(***************************************************************************)
\* Mutant of MustExit: the token check is left out.
MustExitNever == FALSE

\* "!process.env.TOKEN || process.env.TOKEN === ''": token is TRUE when TOKEN
\* is set and not empty.
MustExit == ~token

Request(op, c_id, image_ids, viewed_image_ids, image_id) ==
    [op |-> op, c_id |-> c_id, image_ids |-> image_ids,
     viewed_image_ids |-> viewed_image_ids, image_id |-> image_id]

\* The cycle once axios has been called with req: the request is in flight
\* and the cycle waits at nextpc.  The log notes the request and the pass of
\* the for loop (the place of the listed challenge) that sent it.
Sent(cy, req, nextpc) ==
    [cy EXCEPT !.pc = nextpc, !.request = req,
               !.reqs = Append(@, [op |-> req.op, ch |-> cy.idx])]

\* Cycle c, whose synchronous code has brought it to cy, calls
\* makePostRequest: process.exit(1) without a token, else the request.
makePostRequest(c, cy, req, nextpc) ==
    IF MustExit
    THEN /\ proc' = "exited"
         /\ cycles' = [cycles EXCEPT ![c] = cy]
    ELSE /\ proc' = proc
         /\ cycles' = [cycles EXCEPT ![c] = Sent(cy, req, nextpc)]

\* An exception no try block of fetchChallengesAndVote encloses: the promise of
\* the cycle is rejected.
Reject(cy) == [cy EXCEPT !.pc = "rejected", !.request = NoRequest]

\* The locals of submitVotes are gone when it has returned or thrown.
DropLocals(cy) ==
    [cy EXCEPT !.voteImages = NoVoteImages, !.exposure_factor = 0,
               !.uniqueImageIds = {}, !.votedImages = <<>>,
               !.viewedImages = <<>>, !.picked = <<>>, !.warned = FALSE,
               !.request = NoRequest]

\* "Math.floor(Math.random() * (max - min + 1) + min)" in doubles.  For a
\* random next to 1 the product is span less some units of its binade, then
\* the sum max + 1 less some units of its own, each rounded to nearest-even:
\* a sum rounded up to max + 1 is what the floor returns.  (min >= 0; neither
\* span nor max + 1 is a power of two.)
getRandomDelay(min, max, random) ==
    LET span == max - min + 1 IN
    IF random.kind = "ratio"
    THEN (random.r * span + min * RandomResolution) \div RandomResolution
    ELSE LET p1 == Pow2Below(span)
             d1 == RoundHalfEven(random.r * span, 2 * p1)
             p2 == Pow2Below(max + 1)
             d2 == RoundHalfEven(d1 * p1, p2)
         IN  IF d2 = 0 THEN max + 1 ELSE max

\* "await sleep(getRandomDelay(2000, 5000))" once submitVotes has returned.
StartSleep(cy, r) ==
    [cy EXCEPT !.pc = "sleep", !.delay = getRandomDelay(2000, 5000, r)]

\* Mutant of CatchVoteError: the error of the voting step is not caught.
PropagateVoteError(cy) == Reject([cy EXCEPT !.caught = @ \cup {cy.idx}])

\* The catch of the voting step: logged, on to the next challenge.
CatchVoteError(cy) ==
    [DropLocals(cy) EXCEPT !.pc = "loop", !.caught = @ \cup {cy.idx}]

(***************************************************************************)
(* fetchChallengesAndVote.                                                 *)
(***************************************************************************)
\* The call: getActiveChallenges posts get_my_active_challenges.
StartCycle(c) ==
    makePostRequest(c, [cycles[c] EXCEPT !.pc = "getActiveChallenges"],
                    Request("get_my_active_challenges", 0, <<>>, <<>>, 0),
                    "awaitChallenges")

\* Mutant of getActiveChallenges: a failed request is handed on as it is.
getActiveChallengesAsIs(response) == response

\* What getActiveChallenges returns for the answer of makePostRequest: an
\* empty list when the request failed.
getActiveChallenges(response) ==
    IF response.kind = "null" THEN [kind |-> "ok", len |-> 0] ELSE response

\* The answer of get_my_active_challenges; now is read.  Without a list
\* (or, were it handed on, without an object) the destructuring or the for
\* loop throws.
ChallengesArrive(c, W) ==
    LET cy == cycles[c] IN
    /\ Running
    /\ cy.pc = "awaitChallenges"
    /\ \E r \in ChallengeResponses(W), nw \in W.nows :
          LET res == getActiveChallenges(r)
              cy1 == [cy EXCEPT !.request = NoRequest, !.answer = r.kind,
                                !.now = nw, !.n = res.len] IN
          cycles' = [cycles EXCEPT ![c] =
                        IF res.kind # "ok"
                        THEN Reject(cy1)
                        ELSE [cy1 EXCEPT !.pc = "loop"]]
    /\ UNCHANGED <<token, login, proc, voteCounter>>

\* Mutant of ShouldBoost: a deadline that is now still counts.
ShouldBoostAtDeadline(boost, nw) ==
    /\ boost.state = "AVAILABLE"
    /\ boost.timeout # 0
    /\ boost.timeout - nw <= BoostTimeout
    /\ boost.timeout - nw >= 0

ShouldBoost(boost, nw) ==
    /\ boost.state = "AVAILABLE"
    /\ boost.timeout # 0
    /\ boost.timeout - nw <= BoostTimeout
    /\ boost.timeout - nw > 0

\* Mutant of CatchBoostError: the error of applyBoost is not caught.
PropagateBoostError(cy) == Reject([cy EXCEPT !.boostResult = "threw"])

\* The catch around applyBoost: logged, on to the voting gate.
CatchBoostError(cy) == [cy EXCEPT !.pc = "voteGate", !.boostResult = "threw"]

\* Mutant of getFirstNonTurboKey: the last entry that is not turboed.
getLastNonTurboKey(entries) ==
    IF \E i \in 1..Len(entries) : ~entries[i]
    THEN CHOOSE i \in 1..Len(entries) :
            ~entries[i] /\ \A j \in (i + 1)..Len(entries) : entries[j]
    ELSE 0

\* entries are the turbo flags of member.ranking.entries, an entry's id its
\* position; 0 is null.
getFirstNonTurboKey(entries) ==
    IF \E i \in 1..Len(entries) : ~entries[i]
    THEN CHOOSE i \in 1..Len(entries) :
            ~entries[i] /\ \A j \in 1..(i - 1) : entries[j]
    ELSE 0

\* The for loop takes the next challenge: the boost gate and applyBoost up to
\* its request.
NextChallenge(c, W) ==
    LET cy == cycles[c] IN
    /\ Running
    /\ cy.pc = "loop"
    /\ cy.idx < cy.n
    /\ \E boost \in BoostsOf(W, cy.now) :
          LET cy1 == [cy EXCEPT !.idx = @ + 1, !.boostResult = "none",
                                !.challenge = [NoChallenge EXCEPT !.boost = boost]]
          IN  IF ~boost.present
              THEN /\ cycles' = [cycles EXCEPT ![c] = Reject(cy1)]
                   /\ proc' = proc
              ELSE IF ~ShouldBoost(boost, cy.now)
              THEN /\ cycles' = [cycles EXCEPT ![c] =
                                    [cy1 EXCEPT !.pc = "voteGate"]]
                   /\ proc' = proc
              ELSE \E entries \in EntriesOf(W) :
                   LET cy2 == [cy1 EXCEPT !.boosted = @ \cup {cy1.idx},
                                          !.challenge.entries = entries]
                       boostImageId == getFirstNonTurboKey(entries.list)
                   IN  IF ~entries.present
                       THEN /\ cycles' = [cycles EXCEPT ![c] =
                                             CatchBoostError(cy2)]
                            /\ proc' = proc
                       ELSE IF boostImageId = 0
                       THEN /\ cycles' = [cycles EXCEPT ![c] =
                                  [cy2 EXCEPT !.pc = "voteGate",
                                              !.boostResult = "noentry"]]
                            /\ proc' = proc
                       ELSE makePostRequest(c, cy2,
                                Request("boost_photo", cy1.idx, <<>>, <<>>,
                                        boostImageId),
                                "awaitBoost")
    /\ UNCHANGED <<token, login, voteCounter>>

\* Mutant of BoostReturn: a failed boost_photo is sent again.
BoostReturnRetry(c, W) ==
    LET cy == cycles[c] IN
    /\ Running
    /\ cy.pc = "awaitBoost"
    /\ \E response \in W.responses :
          cycles' = [cycles EXCEPT ![c] =
                        IF response = "failed"
                        THEN Sent(cy, cy.request, "awaitBoost")
                        ELSE [cy EXCEPT !.pc = "voteGate",
                                        !.request = NoRequest,
                                        !.boostResult = response]]
    /\ UNCHANGED <<token, login, proc, voteCounter>>

\* The answer of boost_photo, or its failure (null): applyBoost returns
\* either way.
BoostReturn(c, W) ==
    LET cy == cycles[c] IN
    /\ Running
    /\ cy.pc = "awaitBoost"
    /\ \E response \in W.responses :
          cycles' = [cycles EXCEPT ![c] =
                        [cy EXCEPT !.pc = "voteGate", !.request = NoRequest,
                                   !.boostResult = response]]
    /\ UNCHANGED <<token, login, proc, voteCounter>>

ShouldVote(ch, nw) ==
    /\ ch.exposure.exposure_factor < Target
    /\ ch.start_time < nw

\* The voting gate and getVoteImages up to its request.  The entries, which
\* only applyBoost reads, are not carried further.
VoteGate(c, W) ==
    LET cy == cycles[c] IN
    /\ Running
    /\ cy.pc = "voteGate"
    /\ \E exposure \in ExposuresOf(W), start_time \in StartTimesOf(W, cy.now) :
          LET ch == [cy.challenge EXCEPT !.entries = NoEntries,
                                         !.exposure = exposure,
                                         !.start_time = start_time]
              cy1 == [cy EXCEPT !.challenge = ch, !.gated = @ \cup {cy.idx}]
          IN  IF ~exposure.present
              THEN /\ cycles' = [cycles EXCEPT ![c] = Reject(cy1)]
                   /\ proc' = proc
              ELSE IF ~ShouldVote(ch, cy.now)
              THEN /\ cycles' = [cycles EXCEPT ![c] =
                                    [cy1 EXCEPT !.pc = "loop"]]
                   /\ proc' = proc
              ELSE makePostRequest(c, [cy1 EXCEPT !.fetched = @ \cup {cy.idx}],
                       Request("get_vote_images", cy.idx, <<>>, <<>>, 0),
                       "awaitImages")
    /\ UNCHANGED <<token, login, voteCounter>>

\* The answer of get_vote_images: getVoteImages returns null (the challenge
\* is skipped) or the response, which goes to submitVotes.
ImagesArrive(c, W) ==
    LET cy == cycles[c] IN
    /\ Running
    /\ cy.pc = "awaitImages"
    /\ \E r \in W.voteImages :
          cycles' = [cycles EXCEPT ![c] =
                        IF r.kind = "null" \/ Len(r.images) = 0
                        THEN [cy EXCEPT !.pc = "loop", !.request = NoRequest]
                        ELSE [cy EXCEPT !.pc = "submitVotes",
                                        !.request = NoRequest,
                                        !.voteImages = r]]
    /\ UNCHANGED <<token, login, proc, voteCounter>>

(***************************************************************************)
(* submitVotes.                                                            *)
(***************************************************************************)
\* Mutant of viewedImagesOf: the list is built back to front.
viewedImagesReversed(images) ==
    [i \in 1..Len(images) |->
        encodeURIComponent(images[Len(images) + 1 - i].id)]

\* Mutant of viewedImagesOf: the identifiers are listed as they are.
viewedImagesUnencoded(images) == [i \in 1..Len(images) |-> images[i].id]

viewedImagesOf(images) ==
    [i \in 1..Len(images) |-> encodeURIComponent(images[i].id)]

\* Mutant of LoopContinues: the loop goes on at the target.
LoopContinuesAtTarget(exposure_factor) == exposure_factor <= Target

\* The condition of the while loop.
LoopContinues(exposure_factor) == exposure_factor < Target

\* Mutant of AlreadyChosen: the membership test is left out.
NeverChosen(cy, randomImage) == FALSE

\* "uniqueImageIds.has(randomImage.id)"
AlreadyChosen(cy, randomImage) == randomImage.id \in cy.uniqueImageIds

\* Mutant of AllUsed: the break comes one image early.
AllUsedButOne(uniqueImageIds, images) ==
    Cardinality(uniqueImageIds) >= Len(images) - 1

\* "uniqueImageIds.size === images.length"
AllUsed(uniqueImageIds, images) == Cardinality(uniqueImageIds) = Len(images)

\* submitVotes up to the while loop.  It throws, into the catch of its
\* caller, on null (the destructuring), on an empty pool without a challenge
\* member (challenge.title of the warning) and without a voting member.
SubmitVotesEntry(c, W) ==
    LET cy == cycles[c]
        images == cy.voteImages.images
    IN
    /\ Running
    /\ cy.pc = "submitVotes"
    /\ \E r \in W.randoms :
       cycles' = [cycles EXCEPT ![c] =
          IF cy.voteImages.kind = "null"
          THEN CatchVoteError(cy)
          ELSE IF Len(images) = 0
          THEN IF cy.voteImages.challenge.present
               THEN StartSleep(DropLocals(cy), r)
               ELSE CatchVoteError(cy)
          ELSE IF cy.voteImages.kind = "novoting"
          THEN CatchVoteError(cy)
          ELSE [cy EXCEPT
                  !.votedImages = <<>>,
                  !.viewedImages = viewedImagesOf(images),
                  !.exposure_factor = cy.voteImages.exposure_factor,
                  !.uniqueImageIds = {},
                  !.pc = IF LoopContinues(cy.voteImages.exposure_factor)
                         THEN "select" ELSE "submit"]]
    /\ UNCHANGED <<token, login, proc, voteCounter>>

\* Mutant of AddRatio: the ratio is assigned, not added.
AssignRatio(exposure_factor, randomImage) == randomImage.ratio

\* "exposure_factor += randomImage.ratio"
AddRatio(exposure_factor, randomImage) == exposure_factor + randomImage.ratio

\* One pass of the while loop, Math.random() giving index i.  The warning of
\* the exhausted pool reads challenge.title: without a challenge member it
\* throws instead.
Draw(c, i) ==
    LET cy == cycles[c]
        images == cy.voteImages.images
    IN
    /\ Running
    /\ cy.pc = "select"
    /\ i \in 1..Len(images)
    /\ LET randomImage == images[i]
           ids == cy.uniqueImageIds \cup {randomImage.id}
           ef == AddRatio(cy.exposure_factor, randomImage)
       IN  cycles' = [cycles EXCEPT ![c] =
              IF AlreadyChosen(cy, randomImage)
              THEN cy
              ELSE IF AllUsed(ids, images) /\ ~cy.voteImages.challenge.present
              THEN CatchVoteError(cy)
              ELSE [cy EXCEPT
                      !.uniqueImageIds = ids,
                      !.votedImages =
                          Append(@, encodeURIComponent(randomImage.id)),
                      !.exposure_factor = ef,
                      !.picked = Append(@, i),
                      !.warned = AllUsed(ids, images),
                      !.pc = IF AllUsed(ids, images) \/ ~LoopContinues(ef)
                             THEN "submit" ELSE "select"]]
    /\ UNCHANGED <<token, login, proc, voteCounter>>

\* The request of submit_vote: its c_id is challenge.id of the answer of
\* get_vote_images; without a challenge member building the data throws.
Submit(c) ==
    LET cy == cycles[c] IN
    /\ Running
    /\ cy.pc = "submit"
    /\ IF cy.voteImages.challenge.present
       THEN makePostRequest(c, cy,
                            Request("submit_vote", cy.voteImages.challenge.id,
                                    cy.votedImages, cy.viewedImages, 0),
                            "awaitSubmit")
       ELSE /\ cycles' = [cycles EXCEPT ![c] = CatchVoteError(cy)]
            /\ proc' = proc
    /\ UNCHANGED <<token, login, voteCounter>>

\* Mutant of SubmitReturn: a failed submit_vote is sent again.
SubmitReturnRetry(c, W) ==
    LET cy == cycles[c] IN
    /\ Running
    /\ cy.pc = "awaitSubmit"
    /\ \E response \in W.responses :
          cycles' = [cycles EXCEPT ![c] =
                        IF response = "failed"
                        THEN Sent(cy, cy.request, "awaitSubmit")
                        ELSE [DropLocals(cy) EXCEPT
                                !.pc = "sleep", !.submitResult = response]]
    /\ UNCHANGED <<token, login, proc, voteCounter>>

\* The answer of submit_vote, or its failure (null): submitVotes returns the
\* response or undefined, and the caller, which ignores what is returned,
\* sleeps.
SubmitReturn(c, W) ==
    LET cy == cycles[c] IN
    /\ Running
    /\ cy.pc = "awaitSubmit"
    /\ \E response \in W.responses, r \in W.randoms :
          cycles' = [cycles EXCEPT ![c] =
                        StartSleep([DropLocals(cy) EXCEPT
                                      !.submitResult = response], r)]
    /\ UNCHANGED <<token, login, proc, voteCounter>>

\* The pacing delay is over.
SleepDone(c) ==
    LET cy == cycles[c] IN
    /\ Running
    /\ cy.pc = "sleep"
    /\ cycles' = [cycles EXCEPT ![c] =
                     [cy EXCEPT !.pc = "loop", !.submitResult = "none",
                                !.delay = 0, !.slept = @ \cup {cy.idx}]]
    /\ UNCHANGED <<token, login, proc, voteCounter>>

\* The for loop is over: completion is logged.
Complete(c) ==
    LET cy == cycles[c] IN
    /\ Running
    /\ cy.pc = "loop"
    /\ cy.idx = cy.n
    /\ cycles' = [cycles EXCEPT ![c] = [cy EXCEPT !.pc = "done"]]
    /\ UNCHANGED <<token, login, proc, voteCounter>>

CycleStep(c, W) ==
    \/ ChallengesArrive(c, W)
    \/ NextChallenge(c, W)
    \/ BoostReturn(c, W)
    \/ VoteGate(c, W)
    \/ ImagesArrive(c, W)
    \/ SubmitVotesEntry(c, W)
    \/ \E i \in 1..MaxPool : Draw(c, i)
    \/ Submit(c)
    \/ SubmitReturn(c, W)
    \/ SleepDone(c)
    \/ Complete(c)

(***************************************************************************)
(* voter.js.                                                               *)
(***************************************************************************)
\* The answers of the signup request of login: a body with a token whose
\* string is not empty, a body with a truthy token whose string is empty (an
\* empty array), a body without a token, or a failed request.
LoginAnswers == {"token", "emptytoken", "notoken", "failed"}

\* login() up to its await: the prompts are answered and the signup request
\* is sent with axios directly (not through makePostRequest, and without a
\* token).  One call of login is followed at a time.
LoginCall ==
    /\ Running
    /\ login = "idle"
    /\ login' = "awaitSignup"
    /\ UNCHANGED <<token, proc, voteCounter, cycles>>

\* The answer of signup: a truthy token is assigned to process.env.TOKEN,
\* which stores its string (TOKEN is then set, or empty when the string is
\* empty); any other answer leaves TOKEN alone.
LoginReturn ==
    /\ Running
    /\ login = "awaitSignup"
    /\ login' = "idle"
    /\ \E answer \in LoginAnswers :
          token' = IF answer = "token" THEN TRUE
                   ELSE IF answer = "emptytoken" THEN FALSE
                   ELSE token
    /\ UNCHANGED <<proc, voteCounter, cycles>>

\* The main script: the task is scheduled, the initial run is started.
Startup ==
    /\ proc = "running"
    /\ cycles[0].pc = "idle"
    /\ StartCycle(0)
    /\ UNCHANGED <<token, login, voteCounter>>

\* Mutant of Tick: a tick that finds the initial run unfinished counts the
\* attempt and starts nothing.
TickSkipsWhenBusy ==
    /\ Running
    /\ cycles[0].pc # "idle"
    /\ voteCounter < MaxTicks
    /\ voteCounter' = voteCounter + 1
    /\ IF cycles[0].pc \in {"done", "rejected"}
       THEN StartCycle(voteCounter + 1)
       ELSE UNCHANGED <<proc, cycles>>
    /\ UNCHANGED <<token, login>>

\* The callback of the scheduled task.
Tick ==
    /\ Running
    /\ cycles[0].pc # "idle"
    /\ voteCounter < MaxTicks
    /\ voteCounter' = voteCounter + 1
    /\ StartCycle(voteCounter + 1)
    /\ UNCHANGED <<token, login>>

\* Nothing handles the rejected promise of a cycle: node ends the process.
UnhandledRejection ==
    /\ proc = "running"
    /\ \E c \in Cycles : cycles[c].pc = "rejected"
    /\ proc' = "crashed"
    /\ UNCHANGED <<token, login, voteCounter, cycles>>

Next ==
    \/ LoginCall
    \/ LoginReturn
    \/ Startup
    \/ Tick
    \/ UnhandledRejection
    \/ \E c \in Cycles : CycleStep(c, SchedWorld)

Spec == Init /\ [][Next]_vars

\* One cycle alone: the initial run (after a login or without), no tick.
CycleNext ==
    \/ LoginCall
    \/ LoginReturn
    \/ Startup
    \/ CycleStep(0, CycleWorld)

CycleSpec == Init /\ [][CycleNext]_vars

\* submitVotes alone, called on any response of get_vote_images.
SelectVoteImages ==
    VoteImagesOf(SeqsUpTo([id : Ids, ratio : Ratios], MaxPool), StartExposures,
                 AnswerChallenges({1}, TRUE))

SelectInit ==
    /\ token = TRUE
    /\ login = "idle"
    /\ proc = "running"
    /\ voteCounter = 0
    /\ \E r \in SelectVoteImages :
          cycles = [c \in Cycles |->
                      IF c = 0
                      THEN [IdleCycle EXCEPT
                              !.pc = "submitVotes", !.answer = "ok", !.n = 1,
                              !.now = 1000,
                              !.idx = 1, !.voteImages = r, !.gated = {1},
                              !.fetched = {1},
                              !.challenge =
                                  [boost |-> [present |-> TRUE, state |-> "USED",
                                              timeout |-> 0],
                                   entries |-> NoEntries,
                                   exposure |-> [present |-> TRUE,
                                                 exposure_factor |-> 50],
                                   start_time |-> 999],
                              !.reqs = <<[op |-> "get_my_active_challenges",
                                          ch |-> 0],
                                         [op |-> "get_vote_images", ch |-> 1]>>]
                      ELSE IdleCycle]

SelectNext ==
    \/ SubmitVotesEntry(0, CycleWorld)
    \/ \E i \in 1..MaxPool : Draw(0, i)
    \/ Submit(0)
    \/ SubmitReturn(0, CycleWorld)

SelectSpec == SelectInit /\ [][SelectNext]_vars

\* Math.random() is fair: a loop that can accept a draw does accept one.
SelectFairSpec ==
    /\ SelectSpec
    /\ WF_vars(SubmitVotesEntry(0, CycleWorld))
    /\ WF_vars(\E i \in 1..MaxPool : Draw(0, i))

(***************************************************************************)
(* Properties.                                                             *)
(***************************************************************************)
RECURSIVE SumRatios(_, _)
SumRatios(images, picked) ==
    IF picked = <<>>
    THEN 0
    ELSE images[Head(picked)].ratio + SumRatios(images, Tail(picked))

NoDuplicates(seq) ==
    \A j, k \in 1..Len(seq) : j # k => seq[j] # seq[k]

InSelection(cy) == cy.pc \in {"select", "submit", "awaitSubmit"}

\* C1: for any non-empty pool and starting exposure in [0,100) the selection
\* loop terminates after at most pool.length accepted draws, at the latest
\* when every distinct identifier of the pool has been chosen.  As a state
\* predicate: while the loop is still to draw, fewer than pool.length draws
\* were accepted and some identifier of the pool is not chosen yet (so that a
\* fair sampling reaches an accepted draw).
C1_LoopStopsWhenAllChosen ==
    \A c \in Cycles :
        LET cy == cycles[c]
            images == cy.voteImages.images
        IN  cy.pc = "select" =>
              /\ Len(cy.picked) < Len(images)
              /\ \E i \in 1..Len(images) : images[i].id \notin cy.uniqueImageIds

\* C1, for the pools that hold no identifier twice: under SelectFairSpec the
\* loop is left.  (A pool that repeats an identifier never leaves it once
\* its distinct identifiers are chosen below 100.)
DistinctIds(images) ==
    \A j, k \in 1..Len(images) : j # k => images[j].id # images[k].id

C1_TerminatesOnDistinctIds ==
    DistinctIds(cycles[0].voteImages.images)
        => <>(cycles[0].pc \notin {"submitVotes", "select"})

\* C2: when the selection loop has ended, the starting exposure plus the
\* ratios of the chosen candidates is >= 100, or as many candidates are
\* chosen as the pool holds.
C2_TargetOrExhaustion ==
    \A c \in Cycles :
        LET cy == cycles[c]
            images == cy.voteImages.images
            total == cy.voteImages.exposure_factor + SumRatios(images, cy.picked)
        IN  cy.pc \in {"submit", "awaitSubmit"} =>
              \/ total >= 100
              \/ Len(cy.picked) = Len(images)

C2_Witness ==
    LET cy == cycles[0] IN
    /\ cy.pc = "awaitSubmit"
    /\ Len(cy.voteImages.images) = 3
    /\ Len(cy.picked) = 3
    /\ cy.voteImages.exposure_factor + SumRatios(cy.voteImages.images, cy.picked)
          < 100

\* C3: no identifier appears twice among the chosen image ids, in the loop
\* and in the submit_vote request; a draw of a chosen identifier adds neither
\* a vote nor exposure, so the votes are the accepted draws and the running
\* exposure is the start plus their ratios.
C3_NoDuplicateVotes ==
    \A c \in Cycles :
        LET cy == cycles[c]
            images == cy.voteImages.images
        IN  /\ NoDuplicates(cy.votedImages)
            /\ NoDuplicates(cy.request.image_ids)
            /\ InSelection(cy) =>
                 /\ Len(cy.votedImages) = Len(cy.picked)
                 /\ \A j, k \in 1..Len(cy.picked) :
                       j # k => images[cy.picked[j]].id # images[cy.picked[k]].id
                 /\ cy.exposure_factor =
                       cy.voteImages.exposure_factor + SumRatios(images, cy.picked)

C3_Witness ==
    LET cy == cycles[0]
        images == cy.voteImages.images
    IN  /\ cy.request.op = "submit_vote"
        /\ Len(cy.request.image_ids) = 2
        /\ Len(images) = 3
        /\ images[1].id = images[2].id

\* C4: the viewed image ids of a submit_vote request are the identifiers of
\* the whole fetched pool, in pool order, whatever was chosen.
C4_ViewedIsWholePool ==
    \A c \in Cycles :
        LET cy == cycles[c]
            images == cy.voteImages.images
            viewed == cy.request.viewed_image_ids
        IN  cy.request.op = "submit_vote" =>
              /\ Len(viewed) = Len(images)
              /\ \A i \in 1..Len(images) :
                    viewed[i] = encodeURIComponent(images[i].id)

C4_Witness ==
    LET cy == cycles[0] IN
    /\ cy.request.op = "submit_vote"
    /\ Len(cy.request.viewed_image_ids) = 3
    /\ Len(cy.request.image_ids) = 1
    /\ cy.request.viewed_image_ids[3] = "c%26d"
    /\ cy.request.viewed_image_ids[1] = "a"

\* C5: a boost is attempted for a challenge exactly if its boost state is
\* AVAILABLE, a deadline is present and 0 < deadline - now <= 600; a
\* boost_photo request is sent only for such a challenge.
C5_BoostGating ==
    \A c \in Cycles :
        LET cy == cycles[c]
            boost == cy.challenge.boost
        IN  /\ cy.idx >= 1 =>
                 (cy.idx \in cy.boosted <=>
                    /\ boost.present
                    /\ boost.state = "AVAILABLE"
                    /\ boost.timeout # 0
                    /\ 0 < boost.timeout - cy.now
                    /\ boost.timeout - cy.now <= 600)
            /\ \A j \in 1..Len(cy.reqs) :
                  cy.reqs[j].op = "boost_photo" => cy.reqs[j].ch \in cy.boosted

C5_Witness ==
    LET cy == cycles[0] IN
    /\ cy.pc = "awaitBoost"
    /\ cy.request.op = "boost_photo"
    /\ cy.challenge.boost.timeout - cy.now = 600
    /\ cy.idx = 2
    /\ 1 \notin cy.boosted

\* C6: an error thrown by the voting step of a challenge is caught at that
\* challenge: it does not end the cycle, the loop goes on and a cycle that
\* ends has gone through its whole list and reports completion.
C6_PartialFailureIsolation ==
    \A c \in Cycles :
        LET cy == cycles[c] IN
        \A i \in cy.caught :
            /\ ~(cy.pc = "rejected" /\ cy.idx = i)
            /\ cy.idx >= i
            /\ cy.pc = "done" => cy.idx = cy.n

C6_Witness ==
    LET cy == cycles[0] IN
    /\ cy.pc = "done"
    /\ cy.n = 2
    /\ cy.caught = {1}
    /\ cy.fetched = {1, 2}
    /\ \A j \in 1..Len(cy.reqs) :
          cy.reqs[j] # [op |-> "submit_vote", ch |-> 1]
    /\ \E j \in 1..Len(cy.reqs) :
          cy.reqs[j] = [op |-> "submit_vote", ch |-> 2]

\* A step taken while TOKEN is unset or empty sends no request of a cycle: no
\* request is added to the log of a cycle and none is put in flight.
StepSendsNothing ==
    ~token =>
        \A c \in Cycles :
            /\ cycles'[c].reqs = cycles[c].reqs
            /\ cycles'[c].request \in {cycles[c].request, NoRequest}

\* C7: while TOKEN is unset or empty no request of a cycle is sent; the
\* process exits only at the token check, and a run started without a token
\* has exited at the first call of makePostRequest, before its first request.
C7_NoTokenNoRequest ==
    /\ [](proc = "exited" => ~token)
    /\ []((~token /\ cycles[0].pc # "idle" /\ cycles[0].reqs = <<>>) =>
              proc = "exited")
    /\ [][StepSendsNothing]_vars

C7_Witness ==
    /\ ~token
    /\ proc = "exited"
    /\ cycles[0].pc = "getActiveChallenges"
    /\ cycles[0].reqs = <<>>

\* The token is emptied by a login during a cycle: the process exits at the
\* next request, after the requests sent with the token.
C7_WitnessTokenLost ==
    /\ ~token
    /\ proc = "exited"
    /\ cycles[0].reqs # <<>>

\* C8: the startup starts exactly one cycle, before any tick, and every tick
\* starts exactly one more and adds one to the attempt counter: the cycles
\* started are the initial run and one per counted attempt.
C8_OneCyclePerTick ==
    LET started == {c \in Cycles : cycles[c].pc # "idle"} IN
    /\ cycles[0].pc = "idle" => voteCounter = 0 /\ started = {}
    /\ cycles[0].pc # "idle" => started = 0..voteCounter

C8_Witness ==
    /\ voteCounter = 1
    /\ cycles[1].pc = "awaitChallenges"
    /\ cycles[0].pc = "awaitSubmit"

\* C9: the candidate pool of a challenge is fetched exactly if its exposure
\* factor is < 100 and its start time is <= now; a challenge that starts now
\* is voted on.
C9_VoteGateInclusive ==
    \A c \in Cycles :
        LET cy == cycles[c]
            ch == cy.challenge
        IN  (cy.idx >= 1 /\ cy.pc \notin {"voteGate", "awaitBoost"}
                /\ ch.exposure.present) =>
                (cy.idx \in cy.fetched <=>
                    /\ ch.exposure.exposure_factor < 100
                    /\ ch.start_time <= cy.now)

\* C10: any failure of a challenge, malformed challenge data included, is
\* caught at that challenge and the loop goes on: no challenge of the list
\* ends the cycle with an exception.
C10_NoChallengeAbortsBatch ==
    \A c \in Cycles :
        cycles[c].pc = "rejected" => cycles[c].idx = 0

\* C11: an exception that escapes a cycle is caught at the top level: it never
\* ends the process of the scheduler, which keeps running (and ticking) with
\* a cycle it has rejected.
C11_EscapedExceptionNoCrash ==
    (\E c \in Cycles : cycles[c].pc = "rejected") => proc = "running"

\* C12: when get_my_active_challenges fails or answers with an empty list,
\* the cycle sends no other request, handles no challenge and ends normally:
\* its only step left is the completion report.
C12_EmptyFetchEndsCycle ==
    \A c \in Cycles :
        LET cy == cycles[c] IN
        (cy.answer = "null" \/ (cy.answer = "ok" /\ cy.n = 0)) =>
            /\ cy.pc \in {"loop", "done"}
            /\ cy.idx = 0
            /\ cy.reqs = <<[op |-> "get_my_active_challenges", ch |-> 0]>>
            /\ cy.request = NoRequest
            /\ cy.boosted = {} /\ cy.fetched = {}

C12_Witness ==
    /\ cycles[0].answer = "null"
    /\ cycles[0].pc = "done"

\* The process has ended at the token check of the boost_photo request of the
\* challenge cy is at.
ExitedAtBoost(cy) ==
    proc = "exited" /\ cy.pc = "loop" /\ cy.idx \in cy.boosted \ cy.gated

\* C13: a boost attempt that fails (the request fails, no entry is eligible,
\* or applyBoost throws) does not end the handling of its challenge: the
\* voting gate of that challenge is evaluated next, and when it holds the
\* candidate pool is fetched.  A cycle rejected at such a challenge was
\* rejected by the gate's own read, not by the boost.  (A boost request
\* stopped by the token check is no boost attempt: the process is ended.)
C13_BoostFailureIsolated ==
    \A c \in Cycles :
        LET cy == cycles[c]
            ch == cy.challenge
        IN  /\ \A i \in cy.boosted :
                  (/\ i < cy.idx \/ cy.pc \notin {"awaitBoost", "voteGate"}
                   /\ ~(ExitedAtBoost(cy) /\ i = cy.idx))
                      => i \in cy.gated
            /\ (cy.idx \in cy.boosted /\ cy.idx \in cy.gated) =>
                  IF ch.exposure.present
                  THEN cy.idx \in cy.fetched <=>
                          /\ ch.exposure.exposure_factor < 100
                          /\ ch.start_time < cy.now
                  ELSE cy.pc = "rejected"

C13_Witness ==
    LET cy == cycles[0] IN
    /\ cy.boostResult = "threw"
    /\ cy.pc = "awaitSubmit"
    /\ cy.idx = 2
    /\ cy.boosted = {1, 2}

\* The requests op of a cycle for its challenge ch, as positions of its log.
RequestsOf(cy, op, ch) ==
    {j \in 1..Len(cy.reqs) : cy.reqs[j] = [op |-> op, ch |-> ch]}

\* C14: a cycle sends at most one boost_photo request per challenge, and none
\* for a challenge not yet reached; the request of the current challenge goes
\* out only when its boost is AVAILABLE with 0 < deadline - now <= 600; after
\* a failed boost_photo the cycle has moved on with that one request.
C14_AtMostOneBoost ==
    \A c \in Cycles :
        LET cy == cycles[c]
            boost == cy.challenge.boost
        IN  /\ \A ch \in 0..MaxChallenges + 1 :
                  /\ Cardinality(RequestsOf(cy, "boost_photo", ch)) <= 1
                  /\ (ch = 0 \/ ch > cy.idx) =>
                        RequestsOf(cy, "boost_photo", ch) = {}
            /\ RequestsOf(cy, "boost_photo", cy.idx) # {} =>
                  /\ boost.state = "AVAILABLE"
                  /\ boost.timeout # 0
                  /\ 0 < boost.timeout - cy.now
                  /\ boost.timeout - cy.now <= 600
            /\ cy.boostResult = "failed" =>
                  /\ Cardinality(RequestsOf(cy, "boost_photo", cy.idx)) = 1
                  /\ cy.pc # "awaitBoost"
                  /\ cy.request.op # "boost_photo"

C14_Witness ==
    LET cy == cycles[0] IN
    /\ cy.boostResult = "failed"
    /\ cy.pc = "done"
    /\ cy.n = 2
    /\ Cardinality(RequestsOf(cy, "boost_photo", 1)) = 1
    /\ Cardinality(RequestsOf(cy, "boost_photo", 2)) = 1

\* C15: a cycle sends at most one submit_vote request per listed challenge
\* (per pass of its loop), and none for a challenge not yet reached; the
\* request names the challenge of the answer of get_vote_images; when
\* submit_vote has failed, submitVotes has returned with that one request
\* sent and the cycle is at the pacing delay before the next challenge.
C15_AtMostOneSubmit ==
    \A c \in Cycles :
        LET cy == cycles[c] IN
        /\ cy.request.op = "submit_vote" =>
              /\ cy.voteImages.challenge.present
              /\ cy.request.c_id = cy.voteImages.challenge.id
        /\ \A ch \in 0..MaxChallenges + 1 :
              /\ Cardinality(RequestsOf(cy, "submit_vote", ch)) <= 1
              /\ (ch = 0 \/ ch > cy.idx) =>
                    RequestsOf(cy, "submit_vote", ch) = {}
        /\ cy.submitResult = "failed" =>
              /\ cy.pc = "sleep"
              /\ cy.request = NoRequest
              /\ Cardinality(RequestsOf(cy, "submit_vote", cy.idx)) = 1

\* submit_vote of the first of two challenges has failed: the cycle is at
\* its pacing delay, the second challenge still to come.
C15_Witness ==
    LET cy == cycles[0] IN
    /\ cy.submitResult = "failed"
    /\ cy.idx = 1
    /\ cy.n = 2
    /\ Cardinality(RequestsOf(cy, "submit_vote", 1)) = 1

\* C16: the boost_photo request of a challenge names the first entry of its
\* entry list, in list order, whose turbo flag is false; when every entry is
\* turboed (or the list is empty) the boost step ends without a request and
\* without an exception.  (A process ended at the token check of the request
\* has sent none.)
C16_BoostTargetFirstNonTurbo ==
    \A c \in Cycles :
        LET cy == cycles[c]
            list == cy.challenge.entries.list
            eligible == {i \in 1..Len(list) : ~list[i]}
        IN  /\ cy.request.op = "boost_photo" =>
                  /\ cy.pc = "awaitBoost"
                  /\ cy.challenge.entries.present
                  /\ cy.request.c_id = cy.idx
                  /\ cy.request.image_id \in eligible
                  /\ \A i \in eligible : cy.request.image_id <= i
            /\ (/\ cy.idx \in cy.boosted
                /\ cy.challenge.entries.present
                /\ ~ExitedAtBoost(cy)) =>
                  IF eligible # {}
                  THEN /\ Cardinality(RequestsOf(cy, "boost_photo", cy.idx)) = 1
                       /\ cy.boostResult \in {"none", "ok", "failed"}
                  ELSE /\ RequestsOf(cy, "boost_photo", cy.idx) = {}
                       /\ cy.boostResult = "noentry"
                       /\ cy.pc = "voteGate"
            /\ cy.boostResult = "noentry" =>
                  /\ RequestsOf(cy, "boost_photo", cy.idx) = {}
                  /\ cy.pc = "rejected" => cy.idx \in cy.gated

C16_Witness ==
    LET cy == cycles[0] IN
    /\ cy.pc = "awaitBoost"
    /\ cy.challenge.entries.list = <<TRUE, FALSE>>
    /\ cy.request.image_id = 2

C16_WitnessNoEntry ==
    LET cy == cycles[0] IN
    /\ cy.pc = "voteGate"
    /\ cy.idx \in cy.boosted
    /\ cy.challenge.entries.list = <<TRUE, TRUE>>
    /\ cy.challenge.entries.present

\* The place of a request among the steps of one challenge.
StepRank(op) ==
    CASE op = "get_my_active_challenges" -> 0
      [] op = "boost_photo" -> 1
      [] op = "get_vote_images" -> 2
      [] op = "submit_vote" -> 3

\* The requests of a cycle go out challenge by challenge in list order and,
\* for one challenge, in the order boost_photo, get_vote_images, submit_vote,
\* one at a time; a challenge whose votes were submitted has finished its
\* pacing delay before anything is done for a later challenge.
SequentialOrder ==
    \A c \in Cycles :
        LET cy == cycles[c] IN
        /\ \A j, k \in 1..Len(cy.reqs) :
              j < k =>
                /\ cy.reqs[j].ch <= cy.reqs[k].ch
                /\ cy.reqs[j].ch = cy.reqs[k].ch =>
                      StepRank(cy.reqs[j].op) < StepRank(cy.reqs[k].op)
        /\ cy.request # NoRequest =>
              /\ cy.reqs # <<>>
              /\ cy.reqs[Len(cy.reqs)] = [op |-> cy.request.op, ch |-> cy.idx]
        /\ IF cy.pc = "sleep"
           THEN /\ cy.delay > 0
                /\ cy.request = NoRequest
                /\ RequestsOf(cy, "submit_vote", cy.idx) # {}
                /\ cy.idx \notin cy.slept
           ELSE cy.delay = 0
        /\ \A ch \in 1..cy.idx :
              (RequestsOf(cy, "submit_vote", ch) # {}
                  /\ (ch < cy.idx \/ cy.pc \in {"loop", "done"}))
                 => ch \in cy.slept

\* C17: the challenges of a cycle are processed one after the other in list
\* order, each as boost, fetch, submission, pacing delay (SequentialOrder),
\* and the pacing delay is between 2000 and 5000 ms.
C17_SequentialWithPacing ==
    /\ SequentialOrder
    /\ \A c \in Cycles :
          cycles[c].pc = "sleep" =>
              cycles[c].delay >= 2000 /\ cycles[c].delay <= 5000

C17_Witness ==
    LET cy == cycles[0] IN
    /\ cy.pc = "awaitBoost"
    /\ cy.idx = 2
    /\ cy.slept = {1}
    /\ cy.reqs = <<[op |-> "get_my_active_challenges", ch |-> 0],
                   [op |-> "boost_photo", ch |-> 1],
                   [op |-> "get_vote_images", ch |-> 1],
                   [op |-> "submit_vote", ch |-> 1],
                   [op |-> "boost_photo", ch |-> 2]>>

C17_WitnessLongestDelay ==
    cycles[0].pc = "sleep" /\ cycles[0].delay = 5000

\* C18: when the selection loop has ended, the "not enough images" warning
\* has been given exactly if every candidate of the pool is chosen and the
\* running exposure is still below 100.
C18_WarnedIffInsufficient ==
    \A c \in Cycles :
        LET cy == cycles[c]
            images == cy.voteImages.images
        IN  cy.pc \in {"submit", "awaitSubmit"} =>
              (cy.warned <=>
                  /\ Len(cy.picked) = Len(images)
                  /\ cy.exposure_factor < 100)

\* The pool {a:40, b:30, c:50} of the example, the third identifier being the
\* model's "c&d".
ExamplePool == <<Image("a", 40), Image("b", 30), Image("c&d", 50)>>

\* C19: the running total before the last accepted draw was below 100, so
\* nothing is chosen once the target is reached; on the pool
\* {a:40, b:30, c:50} at starting exposure 60 the loop ends with one or two
\* candidates chosen and a total >= 100.
C19_StopsAtFirstReach ==
    \A c \in Cycles :
        LET cy == cycles[c]
            images == cy.voteImages.images
            start == cy.voteImages.exposure_factor
        IN  /\ (InSelection(cy) /\ cy.picked # <<>>) =>
                  start + SumRatios(images,
                                    SubSeq(cy.picked, 1, Len(cy.picked) - 1))
                     < 100
            /\ (cy.pc \in {"submit", "awaitSubmit"} /\ images = ExamplePool
                    /\ start = 60) =>
                  /\ Len(cy.picked) \in {1, 2}
                  /\ Len(cy.request.image_ids) \in {0, Len(cy.picked)}
                  /\ start + SumRatios(images, cy.picked) >= 100

C19_Witness ==
    LET cy == cycles[0] IN
    /\ cy.pc = "awaitSubmit"
    /\ cy.voteImages.images = ExamplePool
    /\ cy.voteImages.exposure_factor = 60
    /\ cy.picked = <<2, 3>>
    /\ cy.request.image_ids = <<"b", "c%26d">>

\* One pass of the selection loop of cycle c, as a step.
StepKeepsExposure(c) ==
    LET cy == cycles[c]
        images == cy.voteImages.images
    IN  (cy.pc = "select" /\ cycles'[c].pc \in {"select", "submit"}) =>
          /\ cy.exposure_factor < 100
          /\ cycles'[c].exposure_factor >= cy.exposure_factor
          /\ IF cycles'[c].picked = cy.picked
             THEN cycles'[c].exposure_factor = cy.exposure_factor
             ELSE /\ Len(cycles'[c].picked) = Len(cy.picked) + 1
                  /\ cycles'[c].exposure_factor =
                        cy.exposure_factor
                          + images[cycles'[c].picked[Len(cy.picked) + 1]].ratio

\* C20: in a voting pass the loop is run against the fixed target 100 (a draw
\* is made only from a running exposure below 100) and no step lowers the
\* running exposure: a draw of a chosen identifier leaves it as it is, an
\* accepted draw adds the ratio of the candidate drawn.
C20_ExposureNonDecreasing == [][\A c \in Cycles : StepKeepsExposure(c)]_vars

C20_Witness ==
    LET cy == cycles[0] IN
    /\ cy.pc = "select"
    /\ cy.voteImages.exposure_factor = 0
    /\ Len(cy.picked) = 2
    /\ cy.exposure_factor = 70

\* A step that counts a voting attempt: it starts the cycle of that attempt
\* and leaves the cycles in progress as they are.
TickStep ==
    voteCounter' # voteCounter =>
        /\ voteCounter' = voteCounter + 1
        /\ cycles[voteCounter + 1].pc = "idle"
        /\ cycles'[voteCounter + 1].pc \in {"awaitChallenges",
                                             "getActiveChallenges"}
        /\ \A c \in Cycles \ {voteCounter + 1} : cycles'[c] = cycles[c]

\* C21: overlap is not prevented: every tick starts its cycle at once,
\* whatever the earlier cycles are doing, and neither waits for them nor
\* ends them; so two cycles are in progress together and both send
\* submit_vote (or boost_photo) for the same challenge.
C21_TickStartsWithoutWaiting == [][TickStep]_vars

\* The initial run and the cycle of the first tick each have a submit_vote
\* request for the first listed challenge in flight; each sent a boost_photo
\* for it before.
C21_Witness ==
    /\ voteCounter = 1
    /\ \A c \in {0, 1} :
          /\ cycles[c].pc = "awaitSubmit"
          /\ cycles[c].request.op = "submit_vote"
          /\ cycles[c].request.c_id = 1
          /\ RequestsOf(cycles[c], "boost_photo", 1) # {}

\* A submit_vote request goes out only for a challenge listed with an
\* exposure factor below 100 and a fetched pool that is not empty.
SubmitOnlyAfterGateAndPool ==
    \A c \in Cycles :
        LET cy == cycles[c] IN
        cy.request.op = "submit_vote" =>
            /\ cy.challenge.exposure.present
            /\ cy.challenge.exposure.exposure_factor < 100
            /\ cy.idx \in cy.fetched
            /\ Len(cy.voteImages.images) > 0

\* C22: a submit_vote request, sent for a challenge listed below 100 with a
\* pool that is not empty, lists at least one chosen image id.
C22_SubmitHasVote ==
    \A c \in Cycles :
        LET cy == cycles[c] IN
        (/\ cy.request.op = "submit_vote"
         /\ cy.challenge.exposure.exposure_factor < 100
         /\ Len(cy.voteImages.images) > 0) =>
            Len(cy.request.image_ids) >= 1

\* C23: every chosen image id of a submit_vote request is among the viewed
\* image ids of that request, and the request is sent for a pool that was
\* answered and holds an image: submitVotes on an empty or missing pool
\* returns without a request.
C23_ChosenAmongViewed ==
    \A c \in Cycles :
        LET cy == cycles[c]
            chosen == cy.request.image_ids
            viewed == cy.request.viewed_image_ids
        IN  /\ cy.request.op = "submit_vote" =>
                  /\ \A j \in 1..Len(chosen) :
                        \E k \in 1..Len(viewed) : chosen[j] = viewed[k]
                  /\ cy.voteImages.kind = "ok"
                  /\ Len(cy.voteImages.images) > 0
                  /\ Len(viewed) > 0
            /\ (cy.pc = "sleep" /\ cy.submitResult = "none") =>
                  RequestsOf(cy, "submit_vote", cy.idx) = {}

C23_Witness ==
    LET cy == cycles[0] IN
    /\ cy.request.op = "submit_vote"
    /\ cy.request.image_ids = <<"c%26d", "a">>
    /\ cy.request.viewed_image_ids = <<"a", "b", "c%26d">>

\* submitVotes has returned on an empty pool: nothing was sent.
C23_WitnessEmptyPool ==
    LET cy == cycles[0] IN
    /\ cy.pc = "sleep"
    /\ cy.submitResult = "none"
    /\ RequestsOf(cy, "submit_vote", 1) = {}

=============================================================================
